---- MODULE Spec2Model ----
(***************************************************************************)
(* Model of dockerfiles/trainer_downloader.py: the artifact downloader     *)
(* that fills /cache/datasets, /cache/models and /cache/hf_cache before a  *)
(* training job.  One orchestrator process (main) runs at a time; runs     *)
(* follow each other on the same filesystem.  Every capability call        *)
(* (HTTP GET, repository listing, single-file download, snapshot           *)
(* download, tokenizer download) is issued in one step and completes,      *)
(* successfully or not, in a later step.                                   *)
(***************************************************************************)
EXTENDS Integers, Sequences, FiniteSets, TLC

\* ------------------------------------------------------------------ bounds
\* Number of orchestrator runs in one behaviour.
MaxRuns == 2
\* Longest repository listing the Repository Inspector returns.
MaxListing == 2
\* Longest identifier given to the sanitization on its own.
MaxIdLen == 4

\* ------------------------------------------------------------ input sets
\* Strings the code takes apart are sequences of characters.
TaskIds == {<<"t", "1">>, <<"t", "2">>}
ModelRepos == {<<"o", "/", "m">>}
\* --dataset: the URL of a file for download_s3_file, or a dataset repository.
S3Urls == {<<"s", ":", "/", "/", "h", "/", "a">>}
HubDatasets == {<<"d", "/", "a">>}
DatasetIds == S3Urls \cup HubDatasets

FileFormat == {"csv", "json", "hf", "s3"}
NoFormat == "None"
TaskTypeChoices == {"ImageTask", "InstructTextTask", "DpoTask", "GrpoTask"}

\* The command lines of the runs: --file-format is given to the text tasks
\* (main does not read it for an image task); the dataset of an image task
\* and of the s3 format is a URL, that of the hf format a repository.
Args == {a \in [task_id : TaskIds, model : ModelRepos, task_type : TaskTypeChoices,
                dataset : DatasetIds, file_format : FileFormat \cup {NoFormat}] :
            /\ a.task_type = "ImageTask" => a.file_format = NoFormat /\ a.dataset \in S3Urls
            /\ a.file_format = "s3" => a.dataset \in S3Urls
            /\ a.file_format = "hf" => a.dataset \in HubDatasets}

\* ------------------------------------------------------- string helpers
\* Fault variant of replace: only the first occurrence is replaced.
ReplaceFirstOnly(s, old, new) ==
    IF \E i \in 1..Len(s) : s[i] = old
    THEN LET i == CHOOSE k \in 1..Len(s) : s[k] = old /\ \A j \in 1..(k - 1) : s[j] # old
         IN  SubSeq(s, 1, i - 1) \o new \o SubSeq(s, i + 1, Len(s))
    ELSE s

RECURSIVE replace(_, _, _)
\* str.replace(old, new) for a one-character old.
replace(s, old, new) ==
    IF s = <<>> THEN <<>>
    ELSE (IF Head(s) = old THEN new ELSE <<Head(s)>>) \o replace(Tail(s), old, new)

\* repo_id.replace("/", "--")
sanitize(repo_id) == replace(repo_id, "/", <<"-", "-">>)

\* Position of the first occurrence of c in s at or after position from; 0 if none.
RECURSIVE find(_, _, _)
find(s, c, from) ==
    IF from > Len(s) THEN 0
    ELSE IF s[from] = c THEN from
    ELSE find(s, c, from + 1)

\* Position of the last occurrence of c in s; 0 if none.
RECURSIVE rfind(_, _, _)
rfind(s, c, upto) ==
    IF upto < 1 THEN 0
    ELSE IF s[upto] = c THEN upto
    ELSE rfind(s, c, upto - 1)

\* urlparse(file_url).path for URLs with no params, query or fragment:
\* a scheme is what precedes the first ":" when no "/" comes before it, a
\* netloc is what follows "//" up to the next "/".
urlparse_path(url) ==
    LET colon == find(url, ":", 1)
        slash == find(url, "/", 1)
        hasScheme == colon > 1 /\ (slash = 0 \/ colon < slash)
        rest == IF hasScheme THEN SubSeq(url, colon + 1, Len(url)) ELSE url
        hasNetloc == Len(rest) >= 2 /\ rest[1] = "/" /\ rest[2] = "/"
        pathStart == IF hasNetloc THEN find(rest, "/", 3) ELSE 1
    IN  IF pathStart = 0 THEN <<>> ELSE SubSeq(rest, pathStart, Len(rest))

\* os.path.basename
basename(p) == SubSeq(p, rfind(p, "/", Len(p)) + 1, Len(p))

\* os.path.join(a, b) for a relative b
join(a, b) == a \o <<"/">> \o b

\* ------------------------------------------------------------ cache layout
dataset_dir == <<"/cache/datasets">>
model_dir == <<"/cache/models">>
hf_cache == <<"/cache/hf_cache">>
tmp_dir == <<"/tmp">>
NoPath == <<>>

\* ------------------------------------------------------------- filesystem
\* The filesystem maps each existing path to what is stored there: whether
\* it is a file or a directory, the capability call its bytes came from,
\* and whether the bytes are complete.
Made == [op |-> "makedirs", id |-> <<>>]
Dir(from, complete) == [kind |-> "dir", from |-> from, complete |-> complete]
File(from, complete) == [kind |-> "file", from |-> from, complete |-> complete]

\* os.path.exists
exists(f, p) == p \in DOMAIN f
\* os.path.isdir
isdir(f, p) == p \in DOMAIN f /\ f[p].kind = "dir"
\* os.makedirs(p, exist_ok=True)
makedirs(f, p) == IF p \in DOMAIN f THEN f ELSE (p :> Dir(Made, TRUE)) @@ f
\* open(p, "wb"), f.write(...), shutil.move and the libraries' writes
write(f, p, entry) == (p :> entry) @@ f

\* ------------------------------------------------------------ File Selector
None == <<>>
Some(n) == <<n>>
safetensors_suffix == <<".", "s", "a", "f", "e", "t", "e", "n", "s", "o", "r", "s">>
endswith(s, suffix) ==
    Len(s) >= Len(suffix) /\ SubSeq(s, Len(s) - Len(suffix) + 1, Len(s)) = suffix

\* File sizes run past 2^31, so a size is a pair <<g, r>> standing for
\* g * 1024 * 1024 * 1024 + r bytes, with 0 <= r < 1024 * 1024 * 1024.
check_size_in_gb == 6
total_check_size == <<check_size_in_gb, 0>>
\* a > b on sizes
gt(a, b) == a[1] > b[1] \/ (a[1] = b[1] /\ a[2] > b[2])

\* One pass of the loop body: the largest file after looking at file.
\* Fault variant of consider: the size comparison with largest_file is lost.
ConsiderLastWins(largest_file, file) ==
    IF file.size # None
    THEN IF endswith(file.path, safetensors_suffix) /\ gt(file.size[1], total_check_size)
         THEN Some(file)
         ELSE largest_file
    ELSE largest_file

consider(largest_file, file) ==
    IF file.size # None
    THEN IF endswith(file.path, safetensors_suffix) /\ gt(file.size[1], total_check_size)
         THEN IF largest_file = None \/ gt(file.size[1], largest_file[1].size[1])
              THEN Some(file)
              ELSE largest_file
         ELSE largest_file
    ELSE largest_file

RECURSIVE scan(_, _)
\* The for loop over files_metadata, starting from largest_file.
scan(largest_file, files) ==
    IF files = <<>> THEN largest_file
    ELSE scan(consider(largest_file, Head(files)), Tail(files))

\* The return statement: (True, path) or (False, None).
selector_result(largest_file) ==
    IF largest_file # None THEN <<TRUE, largest_file[1].path>> ELSE <<FALSE, None>>

is_safetensors_available(files_metadata) == selector_result(scan(None, files_metadata))

\* Repository listings: entries with or without a size, around the threshold.
EntryPaths == {<<"a">> \o safetensors_suffix, <<"b">> \o safetensors_suffix,
               <<"c", ".", "b", "i", "n">>}
EntrySizes == {None, Some(<<5, 1073741823>>), Some(<<6, 0>>), Some(<<6, 1>>),
               Some(<<6, 2>>)}
Entries == [path : EntryPaths, size : EntrySizes]
Listings == UNION {[1..n -> Entries] : n \in 0..MaxListing}
\* The listings the orchestrator's runs meet: weights files over the
\* threshold, files at or under it, and entries without a size.
RepoEntries == {e \in Entries : \/ e.size \in {Some(<<6, 1>>), Some(<<6, 2>>)}
                                   /\ endswith(e.path, safetensors_suffix)
                                \/ e.size \in {None, Some(<<6, 0>>)}
                                   /\ ~endswith(e.path, safetensors_suffix)}
RepoListings == UNION {[1..n -> RepoEntries] : n \in 0..MaxListing}

\* ------------------------------------------------------ auxiliary assets
\* The three fixed tokenizer assets of an image task, in call order.
AuxAssets ==
    << [op |-> "from_pretrained", repo_id |-> <<"openai/clip-vit-large-patch14">>,
        dest |-> join(hf_cache, <<"models--openai--clip-vit-large-patch14">>)],
       [op |-> "from_pretrained", repo_id |-> <<"laion/CLIP-ViT-bigG-14-laion2B-39B-b160k">>,
        dest |-> join(hf_cache, <<"models--laion--CLIP-ViT-bigG-14-laion2B-39B-b160k">>)],
       [op |-> "snapshot_download", repo_id |-> <<"google/t5-v1_1-xxl">>,
        dest |-> join(hf_cache, <<"google--t5-v1_1-xxl">>)] >>

\* ------------------------------------------------------------------ state
VARIABLES
    fs,            \* the filesystem, shared by all runs
    nruns,         \* orchestrator runs started so far
    succeeded,     \* the arguments of the runs that ended with exit code 0
    args,          \* the parsed command line of the current run
    pc,            \* where the current run stands
    calls,         \* capability calls of the current run, in issue order
    dataset_path,  \* dataset_zip_path / dataset_path of main, NoPath until set
    dataset_format,\* the format tag returned with dataset_path
    model_path,    \* model_path of main, NoPath until set
    safetensors,   \* (has_safetensors, safetensors_path) of download_base_model
    local_path,    \* local_path of download_text_dataset and of download_flux_unet
    aux_i,         \* auxiliary assets fetched so far
    stdout,        \* lines printed by the current run
    exit_code,     \* exit status of the current run, None while it runs
    error,         \* the exception that ended the current run, None otherwise
    populated,     \* per model repo: the path returned by the fetch that filled its cache
    opened,        \* download_s3_file has opened local_file_path and awaits the body
    files_metadata,\* selector or download_flux_unet run: the listing being scanned
    file_i,        \* selector or download_flux_unet run: entries looked at so far
    largest_file,  \* selector run: largest_file of the loop
    returned,      \* selector or download_flux_unet run: the value returned, None before
    repo_name,     \* sanitization run: the identifier given
    once,          \* sanitization run: the identifier sanitized, None before
    twice,         \* sanitization run: the sanitized identifier sanitized, None before
    unet_repo_id,  \* download_flux_unet run: its repo_id
    file_path,      \* download_flux_unet run: file_path of the loop, NoPath for None
    procs,         \* the concurrent S3 dataset fetches, by task id
    killed_at      \* the stages at which a run was killed so far

main_vars == <<fs, nruns, succeeded, args, pc, calls, dataset_path, dataset_format,
               model_path, safetensors, local_path, aux_i, stdout, exit_code, error,
               populated, opened>>
selector_vars == <<files_metadata, file_i, largest_file, returned>>
sanitize_vars == <<repo_name, once, twice>>
unet_vars == <<unet_repo_id, file_path>>
\* What the orchestrator's steps leave alone.
conc_vars == <<procs>>
crash_vars == <<killed_at>>
aside_vars == <<selector_vars, sanitize_vars, unet_vars, conc_vars, crash_vars>>
\* What the steps of download_flux_unet leave alone.
unet_rest == <<succeeded, args, dataset_path, dataset_format, model_path, safetensors,
               aux_i, exit_code, populated, opened, largest_file, sanitize_vars,
               conc_vars, crash_vars>>
vars == <<main_vars, aside_vars>>

\* ---------------------------------------------------------------- helpers
NoArgs == [task_id |-> <<>>, model |-> <<>>, task_type |-> "None",
           dataset |-> <<>>, file_format |-> NoFormat]
NoSelection == <<FALSE, None>>

Line(text, value) == [text |-> text, value |-> value]

\* A capability call: what was called, for which artifact of the run, on
\* which remote identifier, and how it ended.
Call(op, artifact, target, dest) ==
    [op |-> op, artifact |-> artifact, target |-> target, dest |-> dest,
     status |-> "pending"]
Pending == calls # <<>> /\ calls[Len(calls)].status = "pending"
finish(cs, status) == [cs EXCEPT ![Len(cs)].status = status]
Origin(c) == [op |-> c.op, id |-> c.target]

\* -------------------------------------------------------- paths of the code
\* f"{dataset_dir}/{task_id}.zip"
local_zip_path(a) == dataset_dir \o <<"/">> \o a.task_id \o <<".", "z", "i", "p">>

\* input_data_path of download_text_dataset, for the s3 and hf formats
input_data_path(a) ==
    IF a.file_format = "s3"
    THEN join(dataset_dir, a.task_id \o <<"_train_data.json">>)
    ELSE join(dataset_dir, sanitize(a.dataset))

\* save_path of download_base_model, model_dir of download_axolotl_base_model
save_path(repo_id, save_root) == join(save_root, sanitize(repo_id))

\* final_path of download_from_huggingface
final_path(repo_id, local_dir) ==
    join(local_dir, replace(repo_id, "/", <<"_">>) \o safetensors_suffix)

\* local_file_path of download_s3_file
local_file_path(f, file_url, save_to) ==
    LET file_name == basename(urlparse_path(file_url))
    IN  IF save_to # NoPath
        THEN IF isdir(f, save_to) THEN join(save_to, file_name) ELSE save_to
        ELSE join(tmp_dir, file_name)

\* ------------------------------------------------------- decisions of the code
\* "if not os.path.exists(input_data_path)" of download_text_dataset
\* Fault variant: the existence check is lost and the dataset always refetched.
DatasetNeverCached(f, p) == FALSE
\* Fault variant: the check also asks that the entry be complete, which the
\* code has no means to know.
DatasetCachedIfComplete(f, p) == exists(f, p) /\ f[p].complete
dataset_cached(f, p) == exists(f, p)

\* "if os.path.exists(save_path)" of the two model fetches
\* Fault variant: the existence check is lost and the model always refetched.
ModelNeverCached(f, p) == FALSE
model_cached(f, p) == exists(f, p)

\* "if os.path.exists(final_path)" of download_from_huggingface
\* Fault variant: the destination is never found present.
SkipNever(f, final) == FALSE
skip_download(f, final) == exists(f, final)

\* "if has_safetensors and safetensors_path" of download_base_model
\* Fault variant: the selector's answer is ignored.
SingleFileNever(sel) == FALSE
single_file(sel) == sel[1] /\ sel[2] # None

\* The model fetch main awaits after the dataset fetch returned.
model_fetch(task_type) ==
    IF task_type = "ImageTask" THEN "download_base_model" ELSE "download_axolotl_base_model"

\* The dataset fetch main awaits first.
\* Fault variant: main goes to the model fetch without the dataset fetch.
DatasetFetchSkipped(task_type) == model_fetch(task_type)
dataset_fetch(task_type) ==
    IF task_type = "ImageTask" THEN "download_image_dataset" ELSE "download_text_dataset"

\* What main does after the model fetch returned.
\* Fault variant: the auxiliary assets are left out.
AfterModelNoAux(task_type) == "print"
after_model(task_type) == IF task_type = "ImageTask" THEN "aux" ELSE "print"

\* Where control goes when a call made at stage raises: nothing in main or
\* below it handles the exception, so the run ends.
\* Fault variant: the exception is swallowed and main prints its result.
PropagateSwallow(stage) == "print"
propagate(stage) == "failed"

\* Fault variant: the destination is opened whatever the status.
S3ResponseIgnoresStatus(f, path, from, outcome) ==
    IF outcome \in {"ClientError"} THEN f ELSE write(f, path, File(from, FALSE))
\* The filesystem after session.get of download_s3_file answered: on status
\* 200 the destination is opened with "wb", which leaves it empty.
s3_response(f, path, from, outcome) ==
    IF outcome = "200" THEN write(f, path, File(from, FALSE)) ELSE f
\* What session.get ends with: a status, or an exception of the client.
HttpOutcomes == {"200", "404", "500", "ClientError"}
s3_error(outcome) ==
    IF outcome \in {"404", "500"}
    THEN <<"Exception", "Failed to download file", outcome>>
    ELSE <<outcome, "", "">>

\* The filesystem after a snapshot or tokenizer download into dest ended.
hub_response(f, dest, from, outcome) ==
    IF outcome = "ok" THEN write(f, dest, Dir(from, TRUE))
    ELSE IF outcome = "fail_partial" /\ ~exists(f, dest) THEN write(f, dest, Dir(from, FALSE))
    ELSE f
HubOutcomes == {"ok", "fail_clean", "fail_partial"}
HubError == <<"HubError", "", "">>

\* ----------------------------------------------------------------- actions
\* An exception raised at the current stage.
Raise(e) ==
    /\ pc' = propagate(pc)
    /\ error' = e
    /\ exit_code' = IF propagate(pc) = "failed" THEN Some(1) ELSE exit_code

\* main, lines 179-198: parse the command line, create the cache roots,
\* print the two banner lines, and enter the branch of the task type.
main_bounded(a, bound) ==
    /\ pc \in {"idle", "done", "failed", "killed"}
    /\ nruns < bound
    /\ nruns' = nruns + 1
    /\ args' = a
    /\ fs' = makedirs(makedirs(fs, dataset_dir), model_dir)
    /\ stdout' = <<Line("Downloading datasets to", dataset_dir),
                   Line("Downloading models to", model_dir)>>
    /\ calls' = <<>>
    /\ dataset_path' = NoPath
    /\ dataset_format' = NoFormat
    /\ model_path' = NoPath
    /\ safetensors' = NoSelection
    /\ local_path' = NoPath
    /\ aux_i' = 0
    /\ exit_code' = None
    /\ error' = None
    /\ pc' = dataset_fetch(a.task_type)
    /\ opened' = FALSE
    /\ UNCHANGED <<succeeded, populated, aside_vars>>

\* A run of the orchestrator, within the bound on runs.
main_start(a) == main_bounded(a, MaxRuns)

\* download_image_dataset up to the GET of download_s3_file: no cache check.
download_image_dataset ==
    /\ pc = "download_image_dataset"
    /\ LET f1 == makedirs(fs, dataset_dir)
           dest == local_file_path(f1, args.dataset, local_zip_path(args))
       IN  /\ fs' = f1
           /\ local_path' = dest
           /\ calls' = Append(calls, Call("http_get", "dataset", args.dataset, dest))
    /\ stdout' = Append(stdout, Line("Downloading dataset from", args.dataset))
    /\ pc' = "image_get"
    /\ UNCHANGED <<nruns, succeeded, args, dataset_path, dataset_format, model_path,
                   safetensors, aux_i, exit_code, error, populated, opened, aside_vars>>

\* session.get of the image dataset answers: on status 200 the zip is
\* opened, empty, and the body is awaited; otherwise the call raises.
image_get_done(outcome) ==
    /\ pc = "image_get"
    /\ Pending
    /\ ~opened
    /\ fs' = s3_response(fs, local_path, Origin(calls[Len(calls)]), outcome)
    /\ IF outcome = "200"
       THEN /\ opened' = TRUE
            /\ UNCHANGED <<calls, pc, exit_code, error>>
       ELSE /\ calls' = finish(calls, "failed")
            /\ Raise(s3_error(outcome))
            /\ UNCHANGED opened
    /\ UNCHANGED <<nruns, succeeded, args, dataset_path, dataset_format, model_path,
                   safetensors, local_path, aux_i, stdout, populated, aside_vars>>

\* "await response.read()" of the image dataset ends: the body is written
\* to the zip and download_image_dataset returns, or the read raises and the
\* zip stays as it was opened.
image_read_done(ok) ==
    /\ pc = "image_get"
    /\ Pending
    /\ opened
    /\ opened' = FALSE
    /\ IF ok
       THEN /\ fs' = write(fs, local_path, File(Origin(calls[Len(calls)]), TRUE))
            /\ calls' = finish(calls, "ok")
            /\ stdout' = Append(stdout, Line("Downloaded dataset to", local_path))
            /\ dataset_path' = local_path
            /\ pc' = model_fetch(args.task_type)
            /\ UNCHANGED <<exit_code, error>>
       ELSE /\ calls' = finish(calls, "failed")
            /\ Raise(s3_error("ReadError"))
            /\ UNCHANGED <<fs, stdout, dataset_path>>
    /\ UNCHANGED <<nruns, succeeded, args, dataset_format, model_path, safetensors,
                   local_path, aux_i, populated, aside_vars>>

\* download_text_dataset up to its first await or its return.
download_text_dataset ==
    /\ pc = "download_text_dataset"
    /\ LET f1 == makedirs(fs, dataset_dir)
           p == input_data_path(args)
       IN  /\ fs' = f1
           /\ IF args.file_format \in {"s3", "hf"}
              THEN IF dataset_cached(f1, p)
                   THEN /\ dataset_path' = p
                        /\ dataset_format' = args.file_format
                        /\ pc' = model_fetch(args.task_type)
                        /\ UNCHANGED <<calls, local_path, exit_code, error>>
                   ELSE IF args.file_format = "s3"
                   THEN LET dest == local_file_path(f1, args.dataset, NoPath)
                        IN  /\ calls' = Append(calls, Call("http_get", "dataset", args.dataset, dest))
                            /\ local_path' = dest
                            /\ pc' = "text_get"
                            /\ UNCHANGED <<dataset_path, dataset_format, exit_code, error>>
                   ELSE /\ calls' = Append(calls, Call("snapshot_download", "dataset", args.dataset, p))
                        /\ pc' = "dataset_snapshot"
                        /\ UNCHANGED <<dataset_path, dataset_format, local_path, exit_code, error>>
              ELSE \* no branch binds input_data_path: the return raises
                   /\ Raise(<<"UnboundLocalError", "input_data_path", "">>)
                   /\ UNCHANGED <<calls, dataset_path, dataset_format, local_path>>
    /\ UNCHANGED <<nruns, succeeded, args, model_path, safetensors, aux_i, stdout,
                   populated, opened, aside_vars>>

\* session.get of the S3 dataset answers: on status 200 the temporary file
\* is opened, empty, and the body is awaited; otherwise the call raises.
text_get_done(outcome) ==
    /\ pc = "text_get"
    /\ Pending
    /\ ~opened
    /\ fs' = s3_response(fs, local_path, Origin(calls[Len(calls)]), outcome)
    /\ IF outcome = "200"
       THEN /\ opened' = TRUE
            /\ UNCHANGED <<calls, pc, exit_code, error>>
       ELSE /\ calls' = finish(calls, "failed")
            /\ Raise(s3_error(outcome))
            /\ UNCHANGED opened
    /\ UNCHANGED <<nruns, succeeded, args, dataset_path, dataset_format, model_path,
                   safetensors, local_path, aux_i, stdout, populated, aside_vars>>

\* "await response.read()" of the S3 dataset ends: the body is written to
\* the temporary file, or the read raises and the file stays as it was opened.
text_read_done(ok) ==
    /\ pc = "text_get"
    /\ Pending
    /\ opened
    /\ opened' = FALSE
    /\ IF ok
       THEN /\ fs' = write(fs, local_path, File(Origin(calls[Len(calls)]), TRUE))
            /\ calls' = finish(calls, "ok")
            /\ pc' = "text_copy"
            /\ UNCHANGED <<exit_code, error>>
       ELSE /\ calls' = finish(calls, "failed")
            /\ Raise(s3_error("ReadError"))
            /\ UNCHANGED fs
    /\ UNCHANGED <<nruns, succeeded, args, dataset_path, dataset_format, model_path,
                   safetensors, local_path, aux_i, stdout, populated, aside_vars>>

\* shutil.copy(local_path, input_data_path), and the return to main.
text_copy ==
    /\ pc = "text_copy"
    /\ fs' = write(fs, input_data_path(args), fs[local_path])
    /\ dataset_path' = input_data_path(args)
    /\ dataset_format' = args.file_format
    /\ pc' = model_fetch(args.task_type)
    /\ UNCHANGED <<nruns, succeeded, args, calls, model_path, safetensors, local_path,
                   aux_i, stdout, exit_code, error, populated, opened, aside_vars>>

\* The end of the dataset repository snapshot, and the return to main.
dataset_snapshot_done(outcome) ==
    /\ pc = "dataset_snapshot"
    /\ Pending
    /\ fs' = hub_response(fs, input_data_path(args), Origin(calls[Len(calls)]), outcome)
    /\ IF outcome = "ok"
       THEN /\ calls' = finish(calls, "ok")
            /\ dataset_path' = input_data_path(args)
            /\ dataset_format' = args.file_format
            /\ pc' = model_fetch(args.task_type)
            /\ UNCHANGED <<exit_code, error>>
       ELSE /\ calls' = finish(calls, "failed")
            /\ Raise(HubError)
            /\ UNCHANGED <<dataset_path, dataset_format>>
    /\ UNCHANGED <<nruns, succeeded, args, model_path, safetensors, local_path, aux_i,
                   stdout, populated, opened, aside_vars>>

\* download_base_model up to the listing request or the cache-hit return.
download_base_model ==
    /\ pc = "download_base_model"
    /\ LET p == save_path(args.model, model_dir)
       IN  IF model_cached(fs, p)
           THEN /\ stdout' = Append(stdout, Line("Model already exists at", p))
                /\ model_path' = p
                /\ pc' = after_model(args.task_type)
                /\ UNCHANGED calls
           ELSE /\ calls' = Append(calls, Call("list_repo_tree", "model", args.model, NoPath))
                /\ pc' = "list_repo_tree"
                /\ UNCHANGED <<stdout, model_path>>
    /\ UNCHANGED <<fs, nruns, succeeded, args, dataset_path, dataset_format, safetensors,
                   local_path, aux_i, exit_code, error, populated, opened, aside_vars>>

\* The listing fails.
list_repo_tree_failed ==
    /\ pc = "list_repo_tree"
    /\ Pending
    /\ calls' = finish(calls, "failed")
    /\ Raise(HubError)
    /\ UNCHANGED <<fs, nruns, succeeded, args, dataset_path, dataset_format, model_path,
                   safetensors, local_path, aux_i, stdout, populated, opened, aside_vars>>

\* The listing arrives: is_safetensors_available returns, and
\* download_base_model enters download_from_huggingface (up to
\* hf_hub_download) or requests the full snapshot.
list_repo_tree_done(listing) ==
    /\ pc = "list_repo_tree"
    /\ Pending
    /\ LET sel == is_safetensors_available(listing)
           local_dir == save_path(args.model, model_dir)
           final == final_path(args.model, local_dir)
           f1 == makedirs(fs, local_dir)
       IN  /\ safetensors' = sel
           /\ IF single_file(sel)
              THEN /\ fs' = f1
                   /\ IF skip_download(f1, final)
                      THEN /\ calls' = finish(calls, "ok")
                           /\ stdout' = Append(stdout, Line("File already exists", sel[2]))
                           /\ model_path' = final
                           /\ pc' = after_model(args.task_type)
                      ELSE /\ calls' = Append(finish(calls, "ok"),
                                              Call("hf_hub_download", "model", args.model \o <<":">> \o sel[2], final))
                           /\ pc' = "hf_hub_download"
                           /\ UNCHANGED <<stdout, model_path>>
              ELSE /\ calls' = Append(finish(calls, "ok"),
                                      Call("snapshot_download", "model", args.model, local_dir))
                   /\ pc' = "model_snapshot"
                   /\ UNCHANGED <<fs, stdout, model_path>>
    /\ UNCHANGED <<nruns, succeeded, args, dataset_path, dataset_format, local_path,
                   aux_i, exit_code, error, populated, opened, aside_vars>>

\* The end of hf_hub_download: the file is moved from the temporary
\* directory to final_path, or the exception is re-raised.
hf_hub_download_done(ok) ==
    /\ pc = "hf_hub_download"
    /\ Pending
    /\ populated' = IF ok THEN [populated EXCEPT ![args.model] = calls[Len(calls)].dest]
                    ELSE populated
    /\ LET c == calls[Len(calls)]
       IN  IF ok
           THEN /\ fs' = write(fs, c.dest, File(Origin(c), TRUE))
                /\ calls' = finish(calls, "ok")
                /\ stdout' = Append(stdout, Line("File downloaded successfully", safetensors[2]))
                /\ model_path' = c.dest
                /\ pc' = after_model(args.task_type)
                /\ UNCHANGED <<exit_code, error>>
           ELSE /\ calls' = finish(calls, "failed")
                /\ Raise(HubError)
                /\ UNCHANGED <<fs, stdout, model_path>>
    /\ UNCHANGED <<nruns, succeeded, args, dataset_path, dataset_format, safetensors,
                   local_path, aux_i, opened, aside_vars>>

\* The end of the full snapshot of download_base_model.
model_snapshot_done(outcome) ==
    /\ pc = "model_snapshot"
    /\ Pending
    /\ populated' = IF outcome = "ok"
                    THEN [populated EXCEPT ![args.model] = calls[Len(calls)].dest]
                    ELSE populated
    /\ LET c == calls[Len(calls)]
       IN  /\ fs' = hub_response(fs, c.dest, Origin(c), outcome)
           /\ IF outcome = "ok"
              THEN /\ calls' = finish(calls, "ok")
                   /\ model_path' = c.dest
                   /\ pc' = after_model(args.task_type)
                   /\ UNCHANGED <<exit_code, error>>
              ELSE /\ calls' = finish(calls, "failed")
                   /\ Raise(HubError)
                   /\ UNCHANGED model_path
    /\ UNCHANGED <<nruns, succeeded, args, dataset_path, dataset_format, safetensors,
                   local_path, aux_i, stdout, opened, aside_vars>>

\* download_axolotl_base_model up to the snapshot request or the cache-hit return.
download_axolotl_base_model ==
    /\ pc = "download_axolotl_base_model"
    /\ LET p == save_path(args.model, model_dir)
       IN  IF model_cached(fs, p)
           THEN /\ stdout' = Append(stdout, Line("Model already exists at", p))
                /\ model_path' = p
                /\ pc' = after_model(args.task_type)
                /\ UNCHANGED calls
           ELSE /\ calls' = Append(calls, Call("snapshot_download", "model", args.model, p))
                /\ pc' = "axolotl_snapshot"
                /\ UNCHANGED <<stdout, model_path>>
    /\ UNCHANGED <<fs, nruns, succeeded, args, dataset_path, dataset_format, safetensors,
                   local_path, aux_i, exit_code, error, populated, opened, aside_vars>>

\* The end of the snapshot of download_axolotl_base_model.
axolotl_snapshot_done(outcome) ==
    /\ pc = "axolotl_snapshot"
    /\ Pending
    /\ populated' = IF outcome = "ok"
                    THEN [populated EXCEPT ![args.model] = calls[Len(calls)].dest]
                    ELSE populated
    /\ LET c == calls[Len(calls)]
       IN  /\ fs' = hub_response(fs, c.dest, Origin(c), outcome)
           /\ IF outcome = "ok"
              THEN /\ calls' = finish(calls, "ok")
                   /\ model_path' = c.dest
                   /\ pc' = after_model(args.task_type)
                   /\ UNCHANGED <<exit_code, error>>
              ELSE /\ calls' = finish(calls, "failed")
                   /\ Raise(HubError)
                   /\ UNCHANGED model_path
    /\ UNCHANGED <<nruns, succeeded, args, dataset_path, dataset_format, safetensors,
                   local_path, aux_i, stdout, opened, aside_vars>>

\* main, lines 203-212: the next auxiliary asset is requested.
aux_issue ==
    /\ pc = "aux"
    /\ aux_i < Len(AuxAssets)
    /\ LET a == AuxAssets[aux_i + 1]
       IN  calls' = Append(calls, Call(a.op, "aux", a.repo_id, a.dest))
    /\ stdout' = IF aux_i = 0 THEN Append(stdout, Line("Downloading clip models", <<>>))
                 ELSE stdout
    /\ pc' = "aux_wait"
    /\ UNCHANGED <<fs, nruns, succeeded, args, dataset_path, dataset_format, model_path,
                   safetensors, local_path, aux_i, exit_code, error, populated, opened, aside_vars>>

\* The auxiliary asset's download ends: a failed one may leave a part of
\* the asset under the shared cache root.
aux_done(outcome) ==
    /\ pc = "aux_wait"
    /\ Pending
    /\ LET c == calls[Len(calls)]
       IN  /\ fs' = hub_response(fs, c.dest, Origin(c), outcome)
           /\ IF outcome = "ok"
              THEN /\ calls' = finish(calls, "ok")
                   /\ aux_i' = aux_i + 1
                   /\ pc' = IF aux_i + 1 = Len(AuxAssets) THEN "print" ELSE "aux"
                   /\ UNCHANGED <<exit_code, error>>
              ELSE /\ calls' = finish(calls, "failed")
                   /\ Raise(HubError)
                   /\ UNCHANGED aux_i
    /\ UNCHANGED <<nruns, succeeded, args, dataset_path, dataset_format, model_path,
                   safetensors, local_path, stdout, populated, opened, aside_vars>>

\* main, lines 217-218: the two result lines, and the normal exit.
print_result ==
    /\ pc = "print"
    /\ stdout' = stdout \o <<Line("Model path", model_path), Line("Dataset path", dataset_dir)>>
    /\ pc' = "done"
    /\ exit_code' = Some(0)
    /\ succeeded' = succeeded \cup {args}
    /\ UNCHANGED <<fs, nruns, args, calls, dataset_path, dataset_format, model_path,
                   safetensors, local_path, aux_i, error, populated, opened, aside_vars>>

\* ------------------------------------------------------ selector, step by step
\* One iteration of the loop of is_safetensors_available.
selector_step ==
    /\ returned = None
    /\ file_i < Len(files_metadata)
    /\ largest_file' = consider(largest_file, files_metadata[file_i + 1])
    /\ file_i' = file_i + 1
    /\ UNCHANGED <<files_metadata, returned, main_vars, sanitize_vars, unet_vars, conc_vars, crash_vars>>

\* The return of is_safetensors_available.
selector_return ==
    /\ returned = None
    /\ file_i = Len(files_metadata)
    /\ returned' = Some(selector_result(largest_file))
    /\ UNCHANGED <<files_metadata, file_i, largest_file, main_vars, sanitize_vars, unet_vars, conc_vars, crash_vars>>

\* ------------------------------------------------ sanitization, on its own
\* The characters of the identifiers: a letter, the path separator, and the
\* character the separator is replaced with.
IdChars == {"a", "/", "-"}
RepoNames == UNION {[1..n -> IdChars] : n \in 0..MaxIdLen}

\* repo_id.replace("/", "--") applied to the identifier.
sanitize_once ==
    /\ once = None
    /\ once' = Some(sanitize(repo_name))
    /\ UNCHANGED <<repo_name, twice, main_vars, selector_vars, unet_vars, conc_vars, crash_vars>>

\* The same applied to its own result.
sanitize_twice ==
    /\ once # None
    /\ twice = None
    /\ twice' = Some(sanitize(once[1]))
    /\ UNCHANGED <<repo_name, once, main_vars, selector_vars, unet_vars, conc_vars, crash_vars>>

\* ------------------------------------------------- the process is killed
\* The process is killed while snapshot_download writes into its local_dir,
\* the cache path: what was written so far stays, be it nothing, a part or
\* all of the snapshot, and nothing marks it partial.
kill_snapshot(outcome) ==
    /\ pc \in {"dataset_snapshot", "model_snapshot", "axolotl_snapshot"}
    /\ Pending
    /\ LET c == calls[Len(calls)]
       IN  fs' = hub_response(fs, c.dest, Origin(c), outcome)
    /\ calls' = finish(calls, "killed")
    /\ pc' = "killed"
    /\ killed_at' = killed_at \cup {pc}
    /\ UNCHANGED <<nruns, succeeded, args, dataset_path, dataset_format, model_path,
                   safetensors, local_path, aux_i, stdout, exit_code, error, populated,
                   opened, selector_vars, sanitize_vars, unet_vars, conc_vars>>

\* How far a write had come when the process was killed.
CopyProgress == {"none", "part", "whole"}

\* The process is killed in shutil.copy(local_path, input_data_path): before
\* the destination was opened, with a part of the bytes written to it, or
\* with all of them written and the function not yet returned.
kill_text_copy(progress) ==
    /\ pc = "text_copy"
    /\ fs' = IF progress = "none" THEN fs
             ELSE IF progress = "part"
             THEN write(fs, input_data_path(args), File(fs[local_path].from, FALSE))
             ELSE write(fs, input_data_path(args), fs[local_path])
    /\ pc' = "killed"
    /\ killed_at' = killed_at \cup {pc}
    /\ UNCHANGED <<nruns, succeeded, args, calls, dataset_path, dataset_format, model_path,
                   safetensors, local_path, aux_i, stdout, exit_code, error, populated,
                   opened, selector_vars, sanitize_vars, unet_vars, conc_vars>>

\* The process is killed in download_s3_file while the GET is under way.
\* Before the status arrived the destination is as it was.  After line 51
\* opened it, it is empty, or holds a part of the body, or all of it when
\* the kill came between the write and the return.  The call never ends.
kill_download_s3_file(progress) ==
    /\ pc \in {"image_get", "text_get"}
    /\ Pending
    /\ fs' = IF ~opened THEN fs
             ELSE IF progress = "whole"
             THEN write(fs, local_path, File(Origin(calls[Len(calls)]), TRUE))
             ELSE write(fs, local_path, File(Origin(calls[Len(calls)]), FALSE))
    /\ pc' = "killed"
    /\ killed_at' = killed_at \cup {pc}
    /\ UNCHANGED <<nruns, succeeded, args, calls, dataset_path, dataset_format,
                   model_path, safetensors, local_path, aux_i, stdout, exit_code, error,
                   populated, opened, selector_vars, sanitize_vars, unet_vars, conc_vars>>

\* -------------------------------------------- download_flux_unet, on its own
\* The function is called by no line of main: a caller invokes it, time
\* after time, for a repository and the model directory.
unet_check_size == <<10, 0>>
unet_output_dir == model_dir
UnetSizes == {None, Some(<<10, 0>>), Some(<<10, 1>>), Some(<<10, 2>>)}
UnetListings == UNION {[1..n -> [path : EntryPaths, size : UnetSizes]] : n \in 0..MaxListing}

\* The test of the loop of download_flux_unet.
unet_qualifies(file) ==
    /\ file.size # None
    /\ endswith(file.path, safetensors_suffix)
    /\ gt(file.size[1], unet_check_size)

unet_final_path == final_path(unet_repo_id, unet_output_dir)

\* A caller enters download_flux_unet.
unet_start(r) ==
    /\ pc \in {"idle", "done", "failed"}
    /\ nruns < MaxRuns
    /\ nruns' = nruns + 1
    /\ unet_repo_id' = r
    /\ pc' = "download_flux_unet"
    /\ calls' = <<>>
    /\ stdout' = <<>>
    /\ error' = None
    /\ files_metadata' = <<>>
    /\ file_i' = 0
    /\ file_path' = NoPath
    /\ local_path' = NoPath
    /\ returned' = None
    /\ UNCHANGED <<fs, unet_rest>>

\* Line 142: the listing is requested, whatever the filesystem holds.
download_flux_unet ==
    /\ pc = "download_flux_unet"
    /\ calls' = Append(calls, Call("list_repo_tree", "model", unet_repo_id, NoPath))
    /\ pc' = "unet_list_repo_tree"
    /\ UNCHANGED <<fs, nruns, stdout, error, files_metadata, file_i, file_path, local_path,
                   returned, unet_repo_id, unet_rest>>

\* The listing fails.
unet_list_failed ==
    /\ pc = "unet_list_repo_tree"
    /\ Pending
    /\ calls' = finish(calls, "failed")
    /\ pc' = propagate(pc)
    /\ error' = HubError
    /\ UNCHANGED <<fs, nruns, stdout, files_metadata, file_i, file_path, local_path,
                   returned, unet_repo_id, unet_rest>>

\* The listing arrives.
unet_list_done(listing) ==
    /\ pc = "unet_list_repo_tree"
    /\ Pending
    /\ calls' = finish(calls, "ok")
    /\ files_metadata' = listing
    /\ file_i' = 0
    /\ pc' = "unet_loop"
    /\ UNCHANGED <<fs, nruns, stdout, error, file_path, local_path, returned,
                   unet_repo_id, unet_rest>>

\* One iteration of the loop: a qualifying file sets file_path and enters
\* download_from_huggingface, up to hf_hub_download or the skip.
unet_loop_step ==
    /\ pc = "unet_loop"
    /\ file_i < Len(files_metadata)
    /\ LET file == files_metadata[file_i + 1]
           f1 == makedirs(fs, unet_output_dir)
       IN  IF unet_qualifies(file)
           THEN /\ file_path' = file.path
                /\ fs' = f1
                /\ IF skip_download(f1, unet_final_path)
                   THEN /\ stdout' = Append(stdout, Line("File already exists", file.path))
                        /\ local_path' = unet_final_path
                        /\ file_i' = file_i + 1
                        /\ UNCHANGED <<calls, pc>>
                   ELSE /\ calls' = Append(calls, Call("hf_hub_download", "model",
                                                       unet_repo_id \o <<":">> \o file.path,
                                                       unet_final_path))
                        /\ pc' = "unet_hf_hub_download"
                        /\ UNCHANGED <<stdout, local_path, file_i>>
           ELSE /\ file_i' = file_i + 1
                /\ UNCHANGED <<fs, calls, pc, stdout, file_path, local_path>>
    /\ UNCHANGED <<nruns, error, files_metadata, returned, unet_repo_id, unet_rest>>

\* The end of hf_hub_download: the move to final_path and the return to the
\* loop, or the exception re-raised.
unet_hf_hub_download_done(ok) ==
    /\ pc = "unet_hf_hub_download"
    /\ Pending
    /\ LET c == calls[Len(calls)]
       IN  IF ok
           THEN /\ fs' = write(fs, c.dest, File(Origin(c), TRUE))
                /\ calls' = finish(calls, "ok")
                /\ stdout' = Append(stdout, Line("File downloaded successfully", file_path))
                /\ local_path' = c.dest
                /\ file_i' = file_i + 1
                /\ pc' = "unet_loop"
                /\ UNCHANGED error
           ELSE /\ calls' = finish(calls, "failed")
                /\ pc' = propagate(pc)
                /\ error' = HubError
                /\ UNCHANGED <<fs, stdout, local_path, file_i>>
    /\ UNCHANGED <<nruns, files_metadata, file_path, returned, unet_repo_id, unet_rest>>

\* Lines 149-152: FileNotFoundError when no file qualified, local_path otherwise.
unet_return ==
    /\ pc = "unet_loop"
    /\ file_i = Len(files_metadata)
    /\ IF file_path = NoPath
       THEN /\ pc' = propagate(pc)
            /\ error' = <<"FileNotFoundError", "No valid file found in root of repo", "">>
            /\ UNCHANGED returned
       ELSE /\ pc' = "done"
            /\ returned' = Some(local_path)
            /\ UNCHANGED error
    /\ UNCHANGED <<fs, nruns, calls, stdout, files_metadata, file_i, file_path, local_path,
                   unet_repo_id, unet_rest>>

\* ----------------------------------------------------------- specifications
MainInit ==
    /\ fs = << >>
    /\ nruns = 0
    /\ succeeded = {}
    /\ args = NoArgs
    /\ pc = "idle"
    /\ calls = <<>>
    /\ dataset_path = NoPath
    /\ dataset_format = NoFormat
    /\ model_path = NoPath
    /\ safetensors = NoSelection
    /\ local_path = NoPath
    /\ aux_i = 0
    /\ stdout = <<>>
    /\ exit_code = None
    /\ error = None
    /\ populated = [r \in ModelRepos |-> NoPath]
    /\ opened = FALSE

\* No selector run.
SelectorIdle ==
    /\ files_metadata = <<>>
    /\ file_i = 0
    /\ largest_file = None
    /\ returned = None

\* No sanitization run.
SanitizeIdle ==
    /\ repo_name = <<>>
    /\ once = None
    /\ twice = None

\* No download_flux_unet run.
UnetIdle ==
    /\ unet_repo_id = <<>>
    /\ file_path = NoPath

\* No concurrent fetch.
ConcIdle == procs = <<>>

\* No run was killed.
NoKill == killed_at = {}

\* The orchestrator, run after run on one filesystem.
Init ==
    /\ MainInit
    /\ SelectorIdle
    /\ SanitizeIdle
    /\ UnetIdle
    /\ ConcIdle
    /\ NoKill

\* The steps of a run after its start.
Steps ==
    \/ download_image_dataset
    \/ \E o \in HttpOutcomes : image_get_done(o)
    \/ \E ok \in BOOLEAN : image_read_done(ok)
    \/ download_text_dataset
    \/ \E o \in HttpOutcomes : text_get_done(o)
    \/ \E ok \in BOOLEAN : text_read_done(ok)
    \/ text_copy
    \/ \E o \in HubOutcomes : dataset_snapshot_done(o)
    \/ download_base_model
    \/ list_repo_tree_failed
    \/ \E listing \in RepoListings : list_repo_tree_done(listing)
    \/ \E ok \in BOOLEAN : hf_hub_download_done(ok)
    \/ \E o \in HubOutcomes : model_snapshot_done(o)
    \/ download_axolotl_base_model
    \/ \E o \in HubOutcomes : axolotl_snapshot_done(o)
    \/ aux_issue
    \/ \E o \in HubOutcomes : aux_done(o)
    \/ print_result

Next ==
    \/ \E a \in Args : main_start(a)
    \/ Steps

Spec == Init /\ [][Next]_vars

\* The File Selector alone, on every listing within the bound.
SelectorInit ==
    /\ MainInit
    /\ SanitizeIdle
    /\ UnetIdle
    /\ ConcIdle
    /\ NoKill
    /\ files_metadata \in Listings
    /\ file_i = 0
    /\ largest_file = None
    /\ returned = None

SelectorNext == selector_step \/ selector_return

SelectorSpec == SelectorInit /\ [][SelectorNext]_vars

\* ------------------------------------------------------------------ claims
CallsOf(artifact) == {i \in 1..Len(calls) : calls[i].artifact = artifact}
CallsOp(artifact, op) == {i \in CallsOf(artifact) : calls[i].op = op}
TextTasks == {"InstructTextTask", "DpoTask", "GrpoTask"}
model_cache_path == save_path(args.model, model_dir)

\* C1: a dataset fetch with format s3 or hf that starts with its cache path
\* present issues no call, changes nothing on the filesystem, and returns
\* that path with the format tag.
C1_DatasetCacheHitIsNoOp ==
    [][(/\ pc = "download_text_dataset"
        /\ args.file_format \in {"s3", "hf"}
        /\ exists(fs, input_data_path(args)))
       => (/\ calls' = calls
           /\ fs' = fs
           /\ dataset_path' = input_data_path(args)
           /\ dataset_format' = args.file_format
           /\ pc' = model_fetch(args.task_type))]_vars

C1_Witness ==
    /\ args.file_format \in {"s3", "hf"}
    /\ pc = "download_axolotl_base_model"
    /\ calls = <<>>
    /\ dataset_path = input_data_path(args)
    /\ exists(fs, dataset_path)

\* C2: a model fetch (either function) that starts with the cache path
\* present issues no listing and no download, and returns that path.
C2_ModelCacheHitIsNoOp ==
    [][(/\ pc \in {"download_base_model", "download_axolotl_base_model"}
        /\ exists(fs, model_cache_path))
       => (/\ calls' = calls
           /\ fs' = fs
           /\ model_path' = model_cache_path
           /\ pc' = after_model(args.task_type))]_vars

C2_Witness ==
    /\ args.task_type = "ImageTask"
    /\ pc = "aux"
    /\ aux_i = 0
    /\ CallsOf("model") = {}
    /\ model_path = model_cache_path

\* C3: in a run whose command line already ended a run successfully, no
\* capability call is issued.
C3_FetchedOnceAcrossRuns ==
    [][(args' = args /\ args \in succeeded) => Len(calls') <= Len(calls)]_vars

\* C4: a text task that goes to the network for its model lists the
\* repository first, as the generic base-model strategy does.
C4_TextModelListsRepository ==
    (args.task_type \in TextTasks /\ CallsOf("model") # {})
        => CallsOp("model", "list_repo_tree") # {}

\* C5: the selector returns the path of a largest entry among those that
\* have a size, end with ".safetensors" and are over 6 GiB, and returns
\* (False, None) exactly when there is no such entry.
Qualifying(files) ==
    {i \in 1..Len(files) : /\ files[i].size # None
                           /\ endswith(files[i].path, safetensors_suffix)
                           /\ gt(files[i].size[1], total_check_size)}

C5_SelectorPicksLargest ==
    returned # None =>
        LET q == Qualifying(files_metadata)
            r == returned[1]
        IN  /\ (q = {}) <=> (r = <<FALSE, None>>)
            /\ q # {} =>
                 /\ r[1] = TRUE
                 /\ \E i \in q :
                       /\ files_metadata[i].path = r[2]
                       /\ \A j \in q : ~gt(files_metadata[j].size[1], files_metadata[i].size[1])

C5_Witness ==
    /\ returned # None
    /\ Len(files_metadata) = 2
    /\ Qualifying(files_metadata) = {1, 2}
    /\ files_metadata[1].size = Some(<<6, 2>>)
    /\ files_metadata[2].size = Some(<<6, 1>>)
    /\ files_metadata[1].path # files_metadata[2].path
    /\ returned[1] = <<TRUE, files_metadata[1].path>>

\* C6: after the listing of download_base_model arrived, a qualifying file
\* means exactly one single-file download of it and no snapshot, and no
\* qualifying file means exactly one snapshot into the cache path and no
\* single-file download.
ListingArrived == \E i \in CallsOp("model", "list_repo_tree") : calls[i].status = "ok"

C6_SingleFileOrSnapshot ==
    ListingArrived =>
        IF safetensors[1]
        THEN /\ Cardinality(CallsOp("model", "hf_hub_download")) = 1
             /\ \A i \in CallsOp("model", "hf_hub_download") :
                   calls[i].target = args.model \o <<":">> \o safetensors[2]
             /\ CallsOp("model", "snapshot_download") = {}
        ELSE /\ Cardinality(CallsOp("model", "snapshot_download")) = 1
             /\ \A i \in CallsOp("model", "snapshot_download") :
                   /\ calls[i].target = args.model
                   /\ calls[i].dest = model_cache_path
             /\ CallsOp("model", "hf_hub_download") = {}

C6_Witness ==
    /\ ListingArrived
    /\ safetensors = NoSelection
    /\ model_path = model_cache_path
    /\ \E i \in CallsOp("model", "snapshot_download") : calls[i].status = "ok"

\* C7: at most one call is in progress; a model call is issued only after
\* the dataset fetch returned and every earlier call ended; an auxiliary
\* call only after the model fetch returned.
ArtifactRank(artifact) ==
    IF artifact = "dataset" THEN 1 ELSE IF artifact = "model" THEN 2 ELSE 3

C7_FetchesSequential ==
    /\ Cardinality({i \in 1..Len(calls) : calls[i].status = "pending"}) <= 1
    /\ \A i \in 1..Len(calls) :
          /\ calls[i].status = "pending" => i = Len(calls)
          /\ \A j \in 1..Len(calls) :
                j < i => ArtifactRank(calls[j].artifact) <= ArtifactRank(calls[i].artifact)
    /\ CallsOf("model") # {} => dataset_path # NoPath
    /\ CallsOf("aux") # {} => (dataset_path # NoPath /\ model_path # NoPath)

C7_Witness ==
    /\ args.task_type = "ImageTask"
    /\ pc = "aux_wait"
    /\ CallsOf("dataset") # {}
    /\ CallsOf("model") # {}
    /\ calls[Len(calls)].status = "pending"

\* C8: a failed capability call is the last call of its run, and the run
\* has ended in failure.
C8_FailurePropagates ==
    \A i \in 1..Len(calls) :
        calls[i].status = "failed" =>
            /\ i = Len(calls)
            /\ pc = "failed"
            /\ exit_code = Some(1)
            /\ error # None
            /\ \A j \in 1..Len(calls) :
                  (j # i /\ calls[j].op = calls[i].op /\ calls[j].artifact = calls[i].artifact)
                      => calls[j].target # calls[i].target

C8_Witness ==
    /\ pc = "failed"
    /\ calls # <<>>
    /\ calls[Len(calls)].op = "hf_hub_download"
    /\ calls[Len(calls)].status = "failed"
    /\ aux_i = 0

\* C9 as claimed: an image run that ended without a failed auxiliary call
\* has requested the three auxiliary assets.
AuxRequested(k) ==
    \E i \in CallsOf("aux") : /\ calls[i].target = AuxAssets[k].repo_id
                              /\ calls[i].op = AuxAssets[k].op
                              /\ SubSeq(calls[i].dest, 1, Len(hf_cache)) = hf_cache
RunEnded == pc \in {"done", "failed"}
NoAuxFailure == \A i \in CallsOf("aux") : calls[i].status # "failed"

C9_AuxRegardlessOfOutcome ==
    (args.task_type = "ImageTask" /\ RunEnded /\ NoAuxFailure)
        => \A k \in 1..Len(AuxAssets) : AuxRequested(k)

\* C9 amended: an image run requests the auxiliary assets under
\* /cache/hf_cache only after its dataset fetch and its model fetch both
\* succeeded, and none of them when either failed; it requests them in their
\* fixed order, each after the one before it succeeded; a failed request
\* ends the run without the remaining ones; and a run in which dataset,
\* model and every auxiliary request made succeeded has, at its end,
\* requested all three.
C9_AuxAfterDatasetAndModel ==
    args.task_type = "ImageTask" =>
        /\ (RunEnded /\ NoAuxFailure /\ dataset_path # NoPath /\ model_path # NoPath)
              => \A k \in 1..Len(AuxAssets) : AuxRequested(k)
        /\ (\E i \in CallsOf("dataset") \cup CallsOf("model") : calls[i].status = "failed")
              => CallsOf("aux") = {}
        /\ CallsOf("aux") # {} => dataset_path # NoPath /\ model_path # NoPath
        /\ \A k \in 1..Len(AuxAssets) :
              AuxRequested(k) =>
                  \A j \in 1..(k - 1) :
                      \E i \in CallsOf("aux") : /\ calls[i].target = AuxAssets[j].repo_id
                                                /\ calls[i].status = "ok"
        /\ \A i \in CallsOf("aux") :
              calls[i].status = "failed"
                  => /\ i = Len(calls)
                     /\ pc = "failed"
                     /\ Cardinality(CallsOf("aux")) < Len(AuxAssets)
                            => ~AuxRequested(Len(AuxAssets))

C9_Witness ==
    /\ args.task_type = "ImageTask"
    /\ pc = "done"
    /\ \A k \in 1..Len(AuxAssets) : AuxRequested(k)
    /\ \E i \in CallsOp("model", "hf_hub_download") : calls[i].status = "ok"

\* C10: the result lines are printed and the exit code is 0 only when every
\* fetch of the run succeeded; a run with a failed fetch prints no result
\* line and exits non-zero.
ResultPrinted ==
    \E i \in 1..Len(stdout) : stdout[i].text \in {"Model path", "Dataset path"}

C10_ResultOnlyOnFullSuccess ==
    /\ (ResultPrinted \/ exit_code = Some(0)) =>
          /\ \A i \in 1..Len(calls) : calls[i].status = "ok"
          /\ error = None
          /\ dataset_path # NoPath
          /\ model_path # NoPath
          /\ args.task_type = "ImageTask" => aux_i = Len(AuxAssets)
          /\ stdout[Len(stdout) - 1] = Line("Model path", model_path)
          /\ stdout[Len(stdout)] = Line("Dataset path", dataset_dir)
          /\ exit_code = Some(0)
    /\ (\E i \in 1..Len(calls) : calls[i].status = "failed") =>
          /\ ~ResultPrinted
          /\ exit_code = Some(1)

C10_Witness ==
    /\ pc = "failed"
    /\ exit_code = Some(1)
    /\ dataset_path # NoPath
    /\ \E i \in CallsOf("model") : calls[i].status = "failed"
    /\ ~ResultPrinted


\* C11 as claimed: a dataset fetch with format csv or json issues no call and
\* returns the dataset identifier, as a local path, with the format tag.
C11_LocalFormatsReturn ==
    (/\ args.task_type \in TextTasks
     /\ args.file_format \in {"csv", "json"}
     /\ pc # "download_text_dataset")
        => /\ CallsOf("dataset") = {}
           /\ dataset_path = args.dataset
           /\ dataset_format = args.file_format
           /\ error # <<"UnboundLocalError", "input_data_path", "">>


\* C12: an S3 dataset fetch whose GET answers with a status other than 200
\* fails with that status, writes nothing, and leaves the cache path absent,
\* so that the next fetch for the same request goes to the network again.
StatusFailure == error # None /\ error[1] = "Exception"

C12_BadStatusLeavesNoCache ==
    /\ [][(pc = "text_get" /\ StatusFailure')
          => (/\ fs' = fs
              /\ ~exists(fs', input_data_path(args))
              /\ error' = <<"Exception", "Failed to download file", error'[3]>>
              /\ error'[3] \in {"404", "500"}
              /\ calls'[Len(calls')].status = "failed"
              /\ pc' = "failed")]_vars
    /\ [][(/\ pc = "download_text_dataset"
           /\ args.file_format = "s3"
           /\ ~exists(fs, input_data_path(args)))
          => (/\ Len(calls') = Len(calls) + 1
              /\ calls'[Len(calls')].op = "http_get"
              /\ calls'[Len(calls')].target = args.dataset)]_vars

C12_Witness ==
    /\ args.task_type \in TextTasks
    /\ args.file_format = "s3"
    /\ pc = "failed"
    /\ error = <<"Exception", "Failed to download file", "404">>
    /\ ~exists(fs, input_data_path(args))
    /\ nruns = 2
    /\ args \notin succeeded


\* The sanitization alone, on every identifier within the bound.
SanitizeInit ==
    /\ MainInit
    /\ SelectorIdle
    /\ UnetIdle
    /\ ConcIdle
    /\ NoKill
    /\ repo_name \in RepoNames
    /\ once = None
    /\ twice = None

SanitizeNext == sanitize_once \/ sanitize_twice

SanitizeSpec == SanitizeInit /\ [][SanitizeNext]_vars

\* C13: sanitizing a sanitized identifier gives the same identifier.
C13_SanitizeIdempotent == twice # None => twice = once

C13_Witness ==
    /\ twice # None
    /\ Cardinality({i \in 1..Len(repo_name) : repo_name[i] = "/"}) >= 2
    /\ \E i \in 1..Len(repo_name) : repo_name[i] = "-"
    /\ once[1] # repo_name
    /\ Len(once[1]) > Len(repo_name)


\* C14 as claimed: once no download is in progress, a model cache directory
\* that the single-file path created holds the complete weights file.
C14_CacheDirHoldsWeights ==
    \A r \in ModelRepos :
        LET p == save_path(r, model_dir)
        IN  (~Pending /\ exists(fs, p) /\ fs[p].from = Made)
                => /\ exists(fs, final_path(r, p))
                   /\ fs[final_path(r, p)].complete


\* download_flux_unet alone, call after call on one filesystem.
UnetInit ==
    /\ MainInit
    /\ SelectorIdle
    /\ SanitizeIdle
    /\ UnetIdle
    /\ ConcIdle
    /\ NoKill

UnetNext ==
    \/ \E r \in ModelRepos : unet_start(r)
    \/ download_flux_unet
    \/ unet_list_failed
    \/ \E listing \in UnetListings : unet_list_done(listing)
    \/ unet_loop_step
    \/ \E ok \in BOOLEAN : unet_hf_hub_download_done(ok)
    \/ unet_return

UnetSpec == UnetInit /\ [][UnetNext]_vars


\* The files of the listing that pass the test of download_flux_unet.
UnetQualifying == {i \in 1..Len(files_metadata) : unet_qualifies(files_metadata[i])}

\* C15: when download_flux_unet returns for a listing with at least one
\* '.safetensors' file over 10 GiB, exactly one single-file download was
\* issued, the file at the destination is the strictly largest of the
\* qualifying files, and the returned path is that file's local path.
C15_FluxDownloadsLargest ==
    (pc = "done" /\ unet_repo_id # <<>> /\ UnetQualifying # {})
        => /\ Cardinality(CallsOp("model", "hf_hub_download")) = 1
           /\ exists(fs, unet_final_path)
           /\ \E i \in UnetQualifying :
                  /\ \A j \in UnetQualifying \ {i} :
                         gt(files_metadata[i].size[1], files_metadata[j].size[1])
                  /\ fs[unet_final_path].from =
                         [op |-> "hf_hub_download",
                          id |-> unet_repo_id \o <<":">> \o files_metadata[i].path]
           /\ returned = Some(unet_final_path)

\* C16: a call of download_flux_unet that starts with the destination file
\* of the model present goes to its return without any call: no repository
\* listing and no download.
C16_FluxCacheHitSkipsListing ==
    [][(pc = "download_flux_unet" /\ exists(fs, unet_final_path))
           => /\ calls' = calls
              /\ pc' = "done"
              /\ returned' = Some(unet_final_path)]_vars

\* download_from_huggingface is entered: the loop stands on a qualifying file.
InSingleFileFetch ==
    /\ pc = "unet_loop"
    /\ file_i < Len(files_metadata)
    /\ unet_qualifies(files_metadata[file_i + 1])

\* C17: download_from_huggingface entered with the final destination present
\* issues no download and leaves the file as it is; entered with it absent it
\* issues exactly one hf_hub_download; when that download fails the error is
\* raised as it came, no further call is made and no file is at the final
\* destination; when it succeeds the file is there, complete.
C17_SingleFileFetchIdempotent ==
    /\ [][(InSingleFileFetch /\ exists(fs, unet_final_path))
              => /\ calls' = calls
                 /\ exists(fs', unet_final_path)
                 /\ fs'[unet_final_path] = fs[unet_final_path]
                 /\ local_path' = unet_final_path
                 /\ pc' = "unet_loop"]_vars
    /\ [][(InSingleFileFetch /\ ~exists(fs, unet_final_path))
              => /\ Len(calls') = Len(calls) + 1
                 /\ SubSeq(calls', 1, Len(calls)) = calls
                 /\ calls'[Len(calls')].op = "hf_hub_download"
                 /\ calls'[Len(calls')].dest = unet_final_path
                 /\ ~exists(fs', unet_final_path)
                 /\ pc' = "unet_hf_hub_download"]_vars
    /\ [][(pc = "unet_hf_hub_download" /\ pc' # "unet_hf_hub_download")
              => /\ Len(calls') = Len(calls)
                 /\ IF calls'[Len(calls')].status = "failed"
                    THEN /\ pc' = "failed"
                         /\ error' = HubError
                         /\ ~exists(fs', unet_final_path)
                    ELSE /\ pc' = "unet_loop"
                         /\ exists(fs', unet_final_path)
                         /\ fs'[unet_final_path].complete
                         /\ local_path' = unet_final_path]_vars

\* A second call of download_flux_unet went through download_from_huggingface
\* with the destination in place: nothing was downloaded.
C17_Witness ==
    /\ nruns = 2
    /\ pc = "unet_loop"
    /\ file_i > 0
    /\ unet_qualifies(files_metadata[file_i])
    /\ local_path = unet_final_path
    /\ exists(fs, unet_final_path)
    /\ fs[unet_final_path].complete
    /\ CallsOp("model", "hf_hub_download") = {}


\* The command lines of the runs that can be killed: one task id, an image
\* task and a text task with each of the formats that download.
CrashArgs == {a \in Args : /\ a.task_id = <<"t", "1">>
                           /\ a.task_type \in {"ImageTask", "InstructTextTask"}
                           /\ a.task_type = "ImageTask" \/ a.file_format \in {"s3", "hf"}}

\* Runs enough for a kill in the dataset fetch, a kill in the model fetch
\* and the run that follows them.
CrashRuns == MaxRuns + 1

\* The orchestrator with a process that can be killed in a snapshot
\* download, in the copy of the S3 dataset or in a GET.
CrashNext ==
    \/ \E a \in CrashArgs : main_bounded(a, CrashRuns)
    \/ Steps
    \/ \E o \in HubOutcomes : kill_snapshot(o)
    \/ \E progress \in CopyProgress : kill_text_copy(progress)
    \/ \E progress \in CopyProgress : kill_download_s3_file(progress)

CrashSpec == Init /\ [][CrashNext]_vars

\* The path the run writes to at stage: the cache path of the dataset or of
\* the model, or the local_file_path of download_s3_file.
destination_at(stage) ==
    IF stage \in {"dataset_snapshot", "text_copy"} THEN input_data_path(args)
    ELSE IF stage \in {"image_get", "text_get"} THEN local_path
    ELSE model_cache_path

\* The remote identifier of the artifact the run fetches at stage.
artifact_at(stage) ==
    IF stage \in {"model_snapshot", "axolotl_snapshot"} THEN args.model ELSE args.dataset

\* C18: a kill during a snapshot download, during the copy of the S3 dataset
\* or during a GET changes at most the path the run was writing to, and what
\* it leaves there comes from the download that was under way; a kill in a
\* snapshot or in the copy can leave the cache path present and incomplete;
\* and a later fetch that finds an incomplete entry at its cache path
\* returns that path, issues no call and leaves the filesystem as it is.
C18_IncompleteCacheIsReturned ==
    /\ [][pc' = "killed"
              => LET p == destination_at(pc)
                 IN  /\ pc \in {"dataset_snapshot", "model_snapshot", "axolotl_snapshot",
                                "text_copy", "image_get", "text_get"}
                     /\ \A q \in (DOMAIN fs \cup DOMAIN fs') \ {p} :
                            q \in DOMAIN fs /\ q \in DOMAIN fs' /\ fs'[q] = fs[q]
                     /\ exists(fs, p) => exists(fs', p)
                     /\ (exists(fs', p) /\ (~exists(fs, p) \/ fs'[p] # fs[p]))
                            => fs'[p].from.id = artifact_at(pc)]_vars
    /\ [][(/\ pc = "download_text_dataset"
           /\ args.file_format \in {"s3", "hf"}
           /\ exists(fs, input_data_path(args))
           /\ ~fs[input_data_path(args)].complete)
              => /\ calls' = calls
                 /\ fs' = fs
                 /\ dataset_path' = input_data_path(args)
                 /\ dataset_format' = args.file_format
                 /\ pc' = model_fetch(args.task_type)]_vars
    /\ [][(/\ pc \in {"download_axolotl_base_model", "download_base_model"}
           /\ exists(fs, model_cache_path)
           /\ ~fs[model_cache_path].complete)
              => /\ calls' = calls
                 /\ fs' = fs
                 /\ model_path' = model_cache_path
                 /\ pc' = after_model(args.task_type)]_vars

\* One run was killed in the copy of the S3 dataset and one in the snapshot
\* of the model; the run after them ended normally with the partial copy as
\* its dataset and the partial snapshot as its model, without any call.
C18_Witness ==
    /\ nruns = CrashRuns
    /\ pc = "done"
    /\ exit_code = Some(0)
    /\ killed_at = {"text_copy", "axolotl_snapshot"}
    /\ args.task_type \in TextTasks
    /\ args.file_format = "s3"
    /\ dataset_path = input_data_path(args)
    /\ exists(fs, dataset_path)
    /\ fs[dataset_path].kind = "file"
    /\ ~fs[dataset_path].complete
    /\ model_path = model_cache_path
    /\ exists(fs, model_path)
    /\ fs[model_path].kind = "dir"
    /\ fs[model_path].from.op = "snapshot_download"
    /\ ~fs[model_path].complete
    /\ calls = <<>>


\* C19: when download_base_model takes the cache-hit branch for a repository
\* whose cache an earlier invocation populated, it returns the path that
\* invocation returned.
C19_CacheHitReturnsPopulatedPath ==
    (/\ args.task_type = "ImageTask"
     /\ model_path # NoPath
     /\ CallsOf("model") = {}
     /\ populated[args.model] # NoPath)
        => model_path = populated[args.model]


\* ------------------------------------- two S3 dataset fetches at a time
\* The dataset URLs of the concurrent fetches: two of them end in the same
\* file name.
ConcUrls == {<<"s", ":", "/", "/", "h", "/", "a">>,
             <<"s", ":", "/", "/", "g", "/", "a">>,
             <<"s", ":", "/", "/", "h", "/", "b">>}

\* The longest response body, in bytes.
MaxBody == 2

\* The n bytes that a GET of URL u answers with.
body(u, n) == [i \in 1..n |-> [id |-> u, at |-> i]]

\* A file opened with "wb": nothing in it yet.
Opened == [op |-> "open", id |-> <<>>]

\* bytes are the first bytes, or all, of the body of one GET.
OneBody(bytes) ==
    /\ bytes # <<>>
    /\ \A i \in 1..Len(bytes) : bytes[i] = [id |-> bytes[1].id, at |-> i]

\* The file that holds bytes: nothing, the body of one of the GETs or a
\* part of it from its start, or bytes of more than one body or holes.
ConcFile(bytes) ==
    [kind |-> "file",
     from |-> IF bytes = <<>> THEN Opened
              ELSE IF OneBody(bytes) THEN [op |-> "http_get", id |-> bytes[1].id]
              ELSE [op |-> "mixed", id |-> bytes[1].id],
     complete |-> \E t \in DOMAIN procs : bytes = procs[t].body,
     bytes |-> bytes]

\* A byte of a hole: what a file reads as between its former end and a
\* write beyond it.
Hole == [id |-> <<>>, at |-> 0]

\* One byte b of f.write lands at offset k of a file that holds old: the
\* bytes around it stay, and a file that was cut shorter than k meanwhile
\* reads as holes up to k.
write_at(old, k, b) ==
    [i \in 1..(IF Len(old) > k THEN Len(old) ELSE k + 1) |->
        IF i = k + 1 THEN b ELSE IF i <= Len(old) THEN old[i] ELSE Hole]

\* The command line of the process of task t with dataset URL u.
ConcArgs(t, u) ==
    [task_id |-> t, model |-> <<"o", "/", "m">>, task_type |-> "InstructTextTask",
     dataset |-> u, file_format |-> "s3"]

\* Process t moves to stage.
at(t, stage) == [procs EXCEPT ![t].pc = stage]

\* A process for task t is started: main up to download_text_dataset.
conc_main_start(t) ==
    /\ procs[t].pc \in {"idle", "done", "failed"}
    /\ procs[t].nruns < MaxRuns
    /\ procs' = [procs EXCEPT ![t].pc = "download_text_dataset",
                              ![t].nruns = @ + 1,
                              ![t].local_path = NoPath,
                              ![t].opened = FALSE,
                              ![t].written = 0,
                              ![t].copied = 0]
    /\ fs' = makedirs(makedirs(fs, dataset_dir), model_dir)
    /\ UNCHANGED <<nruns, succeeded, args, pc, calls, dataset_path, dataset_format,
                   model_path, safetensors, local_path, aux_i, stdout, exit_code, error,
                   populated, opened, selector_vars, sanitize_vars, unet_vars, crash_vars>>

\* download_text_dataset of process t, format s3, up to the GET of
\* download_s3_file or the cache-hit return.
conc_download_text_dataset(t) ==
    /\ procs[t].pc = "download_text_dataset"
    /\ LET a == procs[t].args
           f1 == makedirs(fs, dataset_dir)
       IN  /\ fs' = f1
           /\ IF dataset_cached(f1, input_data_path(a))
              THEN procs' = at(t, "done")
              ELSE procs' = [procs EXCEPT
                                ![t].pc = "text_get",
                                ![t].local_path = local_file_path(f1, a.dataset, NoPath)]
    /\ UNCHANGED <<nruns, succeeded, args, pc, calls, dataset_path, dataset_format,
                   model_path, safetensors, local_path, aux_i, stdout, exit_code, error,
                   populated, opened, selector_vars, sanitize_vars, unet_vars, crash_vars>>

\* The status of the GET of process t arrives: on 200 local_file_path is
\* opened with "wb", which empties it, and the body is awaited; any other
\* status, or a client error, raises.
conc_text_get_done(t, outcome) ==
    /\ procs[t].pc = "text_get"
    /\ ~procs[t].opened
    /\ IF outcome = "200"
       THEN /\ fs' = write(fs, procs[t].local_path, ConcFile(<<>>))
            /\ procs' = [procs EXCEPT ![t].opened = TRUE]
       ELSE /\ fs' = fs
            /\ procs' = at(t, propagate("text_get"))
    /\ UNCHANGED <<nruns, succeeded, args, pc, calls, dataset_path, dataset_format,
                   model_path, safetensors, local_path, aux_i, stdout, exit_code, error,
                   populated, opened, selector_vars, sanitize_vars, unet_vars, crash_vars>>

\* "await response.read()" of process t ends: the process holds the body
\* and f.write begins at offset 0 of the file it opened, or the read raises
\* and the file is closed as it is.
conc_text_read_done(t, ok) ==
    /\ procs[t].pc = "text_get"
    /\ procs[t].opened
    /\ fs' = fs
    /\ IF ok
       THEN procs' = [procs EXCEPT ![t].pc = "text_write", ![t].written = 0]
       ELSE procs' = [procs EXCEPT ![t].pc = propagate("text_get"), ![t].opened = FALSE]
    /\ UNCHANGED <<nruns, succeeded, args, pc, calls, dataset_path, dataset_format,
                   model_path, safetensors, local_path, aux_i, stdout, exit_code, error,
                   populated, opened, selector_vars, sanitize_vars, unet_vars, crash_vars>>

\* One part of f.write of process t: the next byte of the body lands in
\* the file at the offset of the process, where every other process sees
\* it; after the last byte the file is closed and download_s3_file returns.
conc_text_write_step(t) ==
    /\ procs[t].pc = "text_write"
    /\ LET k == procs[t].written
       IN  IF k < Len(procs[t].body)
           THEN /\ fs' = write(fs, procs[t].local_path,
                               ConcFile(write_at(fs[procs[t].local_path].bytes, k,
                                                 procs[t].body[k + 1])))
                /\ procs' = [procs EXCEPT ![t].written = k + 1]
           ELSE /\ fs' = fs
                /\ procs' = [procs EXCEPT ![t].pc = "text_copy", ![t].opened = FALSE,
                                          ![t].written = 0]
    /\ UNCHANGED <<nruns, succeeded, args, pc, calls, dataset_path, dataset_format,
                   model_path, safetensors, local_path, aux_i, stdout, exit_code, error,
                   populated, opened, selector_vars, sanitize_vars, unet_vars, crash_vars>>

\* shutil.copy(local_path, input_data_path) of process t begins: the
\* destination is opened for writing, which leaves it empty.
conc_text_copy(t) ==
    /\ procs[t].pc = "text_copy"
    /\ fs' = write(fs, input_data_path(procs[t].args), ConcFile(<<>>))
    /\ procs' = [procs EXCEPT ![t].pc = "text_copy_loop", ![t].copied = 0]
    /\ UNCHANGED <<nruns, succeeded, args, pc, calls, dataset_path, dataset_format,
                   model_path, safetensors, local_path, aux_i, stdout, exit_code, error,
                   populated, opened, selector_vars, sanitize_vars, unet_vars, crash_vars>>

\* One round of the copy loop of shutil.copy of process t: the next byte of
\* local_path, as the file is at this moment, goes to the destination; at
\* the end of local_path the copy is over and download_text_dataset returns.
conc_text_copy_step(t) ==
    /\ procs[t].pc = "text_copy_loop"
    /\ LET src == fs[procs[t].local_path].bytes
           dst == input_data_path(procs[t].args)
           k == procs[t].copied
       IN  IF k < Len(src)
           THEN /\ fs' = write(fs, dst, ConcFile(Append(fs[dst].bytes, src[k + 1])))
                /\ procs' = [procs EXCEPT ![t].copied = k + 1]
           ELSE /\ fs' = fs
                /\ procs' = at(t, "done")
    /\ UNCHANGED <<nruns, succeeded, args, pc, calls, dataset_path, dataset_format,
                   model_path, safetensors, local_path, aux_i, stdout, exit_code, error,
                   populated, opened, selector_vars, sanitize_vars, unet_vars, crash_vars>>

\* Two processes, one per task id, with different dataset URLs.
ConcInit ==
    /\ MainInit
    /\ SelectorIdle
    /\ SanitizeIdle
    /\ UnetIdle
    /\ NoKill
    /\ \E u \in [TaskIds -> ConcUrls], n \in [TaskIds -> 1..MaxBody] :
           /\ \A t1, t2 \in TaskIds : t1 # t2 => u[t1] # u[t2]
           /\ procs = [t \in TaskIds |->
                          [args |-> ConcArgs(t, u[t]), body |-> body(u[t], n[t]),
                           pc |-> "idle", nruns |-> 0, local_path |-> NoPath,
                           opened |-> FALSE, written |-> 0, copied |-> 0]]

ConcNext ==
    \E t \in TaskIds :
        \/ conc_main_start(t)
        \/ conc_download_text_dataset(t)
        \/ \E o \in HttpOutcomes : conc_text_get_done(t, o)
        \/ \E ok \in BOOLEAN : conc_text_read_done(t, ok)
        \/ conc_text_write_step(t)
        \/ conc_text_copy(t)
        \/ conc_text_copy_step(t)

ConcSpec == ConcInit /\ [][ConcNext]_vars

\* C20: when a process has ended its S3 dataset fetch, the file at
\* <dataset_dir>/<task_id>_train_data.json holds the bytes fetched from the
\* URL of that process, all of them and no others, whatever the other
\* process did meanwhile.
C20_ConcurrentFetchesIsolated ==
    \A t \in DOMAIN procs :
        procs[t].pc = "done"
            => /\ exists(fs, input_data_path(procs[t].args))
               /\ fs[input_data_path(procs[t].args)].bytes = procs[t].body
               /\ fs[input_data_path(procs[t].args)].from =
                      [op |-> "http_get", id |-> procs[t].args.dataset]
               /\ fs[input_data_path(procs[t].args)].complete

====
